---- MODULE Spec2Model ----
(***************************************************************************)
(* Model of the OpenAI plugin for Genkit (package openai):                 *)
(*   - the capability registry: Init, DefineModel, defineModel, the        *)
(*     package-level state {mu, initted, client};                          *)
(*   - generate: convertRequest, the outbound vendor call,                 *)
(*     translateResponse;                                                  *)
(*   - the pure mapping rules (roles, finish reasons).                     *)
(* Goroutines are the processes of Procs; every handler is split at the    *)
(* points where another goroutine can interleave (mutex acquisition, the   *)
(* outbound call).                                                         *)
(***************************************************************************)
EXTENDS Integers, Sequences, FiniteSets, TLC

\* ------------------------------------------------------------------ bounds
MaxCalls == 3
MaxClients == 2

\* The goroutines that call into the package.
Procs == {1, 2}

\* ------------------------------------------------------- program constants
provider == "openai"
labelPrefix == "OpenAI"
apiKeyEnv == "OPENAI_API_KEY"

GPT4o == "gpt-4o"
GPT4oMini == "gpt-4o-mini"
GPT4Turbo == "gpt-4-turbo"
GPT4 == "gpt-4"

Multimodal == [Multiturn |-> TRUE, Tools |-> TRUE, SystemRole |-> TRUE, Media |-> TRUE]
BasicText == [Multiturn |-> TRUE, Tools |-> TRUE, SystemRole |-> TRUE, Media |-> FALSE]

knownCaps ==
    (GPT4o :> Multimodal) @@ (GPT4oMini :> Multimodal) @@
    (GPT4Turbo :> Multimodal) @@ (GPT4 :> BasicText)

modelsSupportingResponseFormats == <<GPT4o, GPT4oMini, GPT4Turbo>>

\* ------------------------------------------------------------ input domains
\* A model name that is not in knownCaps, for DefineModel.
CustomModel == "my-finetune"
ModelNames == DOMAIN knownCaps \cup {CustomModel}
\* The names DefineModel is called with: known ones and an unknown one.
DefineNames == {GPT4o, GPT4, CustomModel}

\* *ai.ModelCapabilities arguments of DefineModel: nil, or a pointer to a value.
NilCaps == [isNil |-> TRUE, val |-> BasicText]
CapsArgs == {NilCaps, [isNil |-> FALSE, val |-> BasicText]}

\* *Config arguments of Init: nil, &Config{}, &Config{APIKey: ...}.
NilConfig == [isNil |-> TRUE, APIKey |-> ""]
ConfigArgs == {NilConfig, [isNil |-> FALSE, APIKey |-> ""], [isNil |-> FALSE, APIKey |-> "sk-config"]}

\* Values of the environment variable OPENAI_API_KEY.
EnvValues == {"", "sk-env"}

\* --------------------------------------------------------------- outcomes
\* What a call ends with: nil, an error value, or a panic.
NilErr == [kind |-> "nil", msg |-> ""]
ErrRet(msg) == [kind |-> "error", msg |-> msg]
PanicRet(msg) == [kind |-> "panic", msg |-> msg]
NoRet == [op |-> "none", kind |-> "none"]

VARIABLES
    mu,        \* state.mu: 0 when free, else the goroutine holding it
    initted,   \* state.initted
    client,    \* state.client: 0 is nil, else a handle (index into created)
    created,   \* the API keys goopenai.NewClient was called with, in order
    env,       \* os.Getenv(apiKeyEnv)
    registry,  \* ai's model table for provider "openai": name -> entry
    regCount,  \* number of ai.DefineModel calls made
    initOK,    \* number of Init calls that returned nil
    nCalls,    \* number of exported calls started
    pc,        \* per goroutine: position in the handler it runs
    frame,     \* per goroutine: arguments and locals of the running handler
    ret,       \* per goroutine: what its last call returned
    call       \* the last call of a translation function made on its own: function, arguments, result

vars == <<mu, initted, client, created, env, registry, regCount, initOK, nCalls, pc, frame, ret, call>>

\* The state of the package and of its callers.
progVars == <<mu, initted, client, created, env, registry, regCount, initOK, nCalls, pc, frame, ret>>

NoEntry == [defined |-> FALSE, Label |-> "", Supports |-> BasicText, closure |-> ""]

EmptyFrame == [op |-> "none"]

NoCall == [fn |-> "none"]

\* --------------------------------------------------------- the vocabularies
\* ai.Role
RoleUser == "user"
RoleSystem == "system"
RoleModel == "model"
RoleTool == "tool"

\* goopenai.ChatMessageRole*
ChatMessageRoleUser == "user"
ChatMessageRoleSystem == "system"
ChatMessageRoleAssistant == "assistant"
ChatMessageRoleTool == "tool"
ChatMessageRoleFunction == "function"

\* goopenai.FinishReason*
FinishReasonStop == "stop"
FinishReasonLength == "length"
FinishReasonFunctionCall == "function_call"
FinishReasonToolCalls == "tool_calls"
FinishReasonContentFilter == "content_filter"
FinishReasonNull == "null"

\* ai.FinishReason*
AIFinishReasonStop == "stop"
AIFinishReasonLength == "length"
AIFinishReasonBlocked == "blocked"
AIFinishReasonOther == "other"
AIFinishReasonUnknown == "unknown"

\* F(e), with e evaluated once however often F uses its argument.
Once(F(_), e) == CHOOSE r \in {F(x) : x \in {e}} : TRUE

\* The result of a function that returns a value or panics.
Val(v) == [panic |-> FALSE, v |-> v]
Panics(msg) == [panic |-> TRUE, v |-> msg]

\* ------------------------------------------------------- the mapping rules
\* A role mapping that keeps each role's generic name.
fromAIRoleSameName(aiRole) ==
    IF aiRole \in {RoleUser, RoleSystem, RoleModel, RoleTool} THEN Val(aiRole)
    ELSE Panics("Unknown ai.Role: " \o aiRole)

\* fromAIRoleToOpenAIRole: generic role -> vendor role.
fromAIRoleToOpenAIRole(aiRole) ==
    CASE aiRole = RoleUser -> Val(ChatMessageRoleUser)
      [] aiRole = RoleSystem -> Val(ChatMessageRoleSystem)
      [] aiRole = RoleModel -> Val(ChatMessageRoleAssistant)
      [] aiRole = RoleTool -> Val(ChatMessageRoleTool)
      [] OTHER -> Panics("Unknown ai.Role: " \o aiRole)

\* toOpenAIRole: vendor role -> generic role.
toOpenAIRole(role) ==
    CASE role = ChatMessageRoleUser -> Val(RoleUser)
      [] role = ChatMessageRoleAssistant -> Val(RoleModel)
      [] role = ChatMessageRoleSystem -> Val(RoleSystem)
      [] role \in {ChatMessageRoleTool, ChatMessageRoleFunction} -> Val(RoleTool)
      [] OTHER -> Panics("unknown role: " \o role)

\* A finish-reason switch whose default case answers Other.
finishReasonDefaultOther(fr) ==
    CASE fr \in {FinishReasonStop, FinishReasonToolCalls} -> AIFinishReasonStop
      [] fr = FinishReasonLength -> AIFinishReasonLength
      [] fr = FinishReasonContentFilter -> AIFinishReasonBlocked
      [] fr = FinishReasonFunctionCall -> AIFinishReasonOther
      [] fr = FinishReasonNull -> AIFinishReasonUnknown
      [] OTHER -> AIFinishReasonOther

\* translateCandidate, the switch on choice.FinishReason.
translateFinishReason(fr) ==
    CASE fr \in {FinishReasonStop, FinishReasonToolCalls} -> AIFinishReasonStop
      [] fr = FinishReasonLength -> AIFinishReasonLength
      [] fr = FinishReasonContentFilter -> AIFinishReasonBlocked
      [] fr = FinishReasonFunctionCall -> AIFinishReasonOther
      [] fr = FinishReasonNull -> AIFinishReasonUnknown
      [] OTHER -> AIFinishReasonUnknown

\* ------------------------------------------------------------ JSON helpers
\* A Go value held in a map[string]any: nil, bool, a number (its Go type is
\* kept: int or float64), string, []any, map[string]any, or a value
\* encoding/json cannot encode (a channel, a function).
JNull == [t |-> "null"]
JBool(b) == [t |-> "bool", b |-> b]
JNum(go, n) == [t |-> "num", go |-> go, n |-> n]
JStr(s) == [t |-> "str", s |-> s]
JArr(a) == [t |-> "arr", a |-> a]
JMap(m) == [t |-> "map", isNil |-> FALSE, m |-> m]
JUnsupported == [t |-> "unsupported"]
EmptyMap == [k \in {} |-> JNull]
NilMap == [t |-> "map", isNil |-> TRUE, m |-> EmptyMap]

\* A JSON text is the sequence of its tokens.  The keys, strings and numbers
\* that occur in the modelled texts:
KeyOrder == <<"over", "type", "value", "x">>
StrUniverse == {"over", "type", "value", "x", "object", "Paris", ""}
NumUniverse == 0..3
NumText(n) == <<"0", "1", "2", "3">>[n + 1]
Quote(s) == "\"" \o s \o "\""
IsNumTok(tok) == \E n \in NumUniverse : NumText(n) = tok
NumOf(tok) == CHOOSE n \in NumUniverse : NumText(n) = tok
IsStrTok(tok) == \E s \in StrUniverse : Quote(s) = tok
StrOf(tok) == CHOOSE s \in StrUniverse : Quote(s) = tok

RECURSIVE Marshalable(_)
\* json.Marshal returns an error for a value it cannot encode.
Marshalable(v) ==
    CASE v.t = "unsupported" -> FALSE
      [] v.t = "arr" -> \A i \in 1..Len(v.a) : Marshalable(v.a[i])
      [] v.t = "map" -> \A k \in DOMAIN v.m : Marshalable(v.m[k])
      [] OTHER -> TRUE

RECURSIVE encValue(_), encMembers(_, _, _), encElems(_, _)
\* json.Marshal: objects are written with their keys sorted, a nil map as null.
encValue(v) ==
    CASE v.t = "null" -> <<"null">>
      [] v.t = "bool" -> <<IF v.b THEN "true" ELSE "false">>
      [] v.t = "num" -> <<NumText(v.n)>>
      [] v.t = "str" -> <<Quote(v.s)>>
      [] v.t = "arr" -> <<"[">> \o encElems(v.a, 1) \o <<"]">>
      [] v.t = "map" -> IF v.isNil THEN <<"null">>
                        ELSE <<"{">> \o encMembers(v.m, 1, TRUE) \o <<"}">>

encMembers(m, i, first) ==
    IF i > Len(KeyOrder) THEN <<>>
    ELSE IF KeyOrder[i] \notin DOMAIN m THEN encMembers(m, i + 1, first)
    ELSE (IF first THEN <<>> ELSE <<",">>) \o <<Quote(KeyOrder[i]), ":">>
         \o encValue(m[KeyOrder[i]]) \o encMembers(m, i + 1, FALSE)

encElems(a, i) ==
    IF i > Len(a) THEN <<>>
    ELSE (IF i = 1 THEN <<>> ELSE <<",">>) \o encValue(a[i]) \o encElems(a, i + 1)

ParseFail == [ok |-> FALSE, v |-> JNull, rest |-> <<>>]
ParseOK(v, rest) == [ok |-> TRUE, v |-> v, rest |-> rest]

RECURSIVE parseValue(_), parseMembers(_, _), parseElems(_, _)
\* json.Unmarshal into an any: numbers become float64, objects map[string]any,
\* arrays []any; of two equal keys the later one wins.
parseValue(toks) ==
    IF toks = <<>> THEN ParseFail
    ELSE CASE Head(toks) = "null" -> ParseOK(JNull, Tail(toks))
           [] Head(toks) \in {"true", "false"} -> ParseOK(JBool(Head(toks) = "true"), Tail(toks))
           [] IsNumTok(Head(toks)) -> ParseOK(JNum("float64", NumOf(Head(toks))), Tail(toks))
           [] IsStrTok(Head(toks)) -> ParseOK(JStr(StrOf(Head(toks))), Tail(toks))
           [] Head(toks) = "{" -> IF Len(toks) > 1 /\ toks[2] = "}"
                                  THEN ParseOK(JMap(EmptyMap), Tail(Tail(toks)))
                                  ELSE parseMembers(Tail(toks), EmptyMap)
           [] Head(toks) = "[" -> IF Len(toks) > 1 /\ toks[2] = "]"
                                  THEN ParseOK(JArr(<<>>), Tail(Tail(toks)))
                                  ELSE parseElems(Tail(toks), <<>>)
           [] OTHER -> ParseFail

\* After a member's value pv: the object ends, or another member follows.
parseMembersNext(k, pv, acc) ==
    IF ~pv.ok \/ pv.rest = <<>> THEN ParseFail
    ELSE CASE Head(pv.rest) = "}" -> ParseOK(JMap((k :> pv.v) @@ acc), Tail(pv.rest))
           [] Head(pv.rest) = "," -> parseMembers(Tail(pv.rest), (k :> pv.v) @@ acc)
           [] OTHER -> ParseFail

parseMembers(toks, acc) ==
    IF Len(toks) < 3 \/ ~IsStrTok(toks[1]) \/ toks[2] # ":" THEN ParseFail
    ELSE Once(LAMBDA pv : parseMembersNext(StrOf(toks[1]), pv, acc),
              parseValue(SubSeq(toks, 3, Len(toks))))

\* After an element pv: the array ends, or another element follows.
parseElemsNext(pv, acc) ==
    IF ~pv.ok \/ pv.rest = <<>> THEN ParseFail
    ELSE CASE Head(pv.rest) = "]" -> ParseOK(JArr(Append(acc, pv.v)), Tail(pv.rest))
           [] Head(pv.rest) = "," -> parseElems(Tail(pv.rest), Append(acc, pv.v))
           [] OTHER -> ParseFail

parseElems(toks, acc) == Once(LAMBDA pv : parseElemsNext(pv, acc), parseValue(toks))

\* jsonStringToMap, on the parse pv of the whole text: the text null leaves the
\* map nil; any other text that is not an object is an error.
unmarshalMap(pv) ==
    IF pv.ok /\ pv.rest = <<>> /\ pv.v.t = "map" THEN Val(pv.v)
    ELSE IF pv.ok /\ pv.rest = <<>> /\ pv.v.t = "null" THEN Val(NilMap)
    ELSE Panics("unmarshal failed to parse json string")

\* jsonStringToMap: json.Unmarshal into a map[string]any; panics on an error.
jsonStringToMap(jsonString) == Once(unmarshalMap, parseValue(jsonString))

\* Mutant of mapToJSONString: a nil map is encoded as the empty object.
mapToJSONStringNilAsEmpty(data) ==
    IF ~Marshalable(data) THEN Panics("failed to marshal map to JSON string")
    ELSE IF data.isNil THEN Val(<<"{", "}">>)
    ELSE Val(encValue(data))

\* mapToJSONString: json.Marshal of the map; panics on an error.
mapToJSONString(data) ==
    IF Marshalable(data) THEN Val(encValue(data))
    ELSE Panics("failed to marshal map to JSON string")

\* mapToJSONRawMessage: json.Marshal of the map; returns the error.
mapToJSONRawMessage(data) ==
    IF Marshalable(data) THEN [err |-> FALSE, v |-> encValue(data)]
    ELSE [err |-> TRUE, v |-> <<"failed to marshal map to JSON string">>]

\* ------------------------------------------------------------- the ai types
\* A Go string that carries content is the sequence of its tokens (a JSON
\* text has one per lexical token, any other text is a single token).
Text(s) == <<s>>

NoToolRequest == [isNil |-> TRUE, Name |-> "", Input |-> NilMap]
NoToolResponse == [isNil |-> TRUE, Name |-> "", Output |-> NilMap]

\* ai.Part and its constructors.
Part(kind, contentType, text, treq, tresp) ==
    [Kind |-> kind, ContentType |-> contentType, Text |-> text,
     ToolRequest |-> treq, ToolResponse |-> tresp]
NewTextPart(text) == Part("text", "plain/text", text, NoToolRequest, NoToolResponse)
NewMediaPart(mimeType, contents) == Part("media", mimeType, contents, NoToolRequest, NoToolResponse)
NewDataPart(contents) == Part("data", "", contents, NoToolRequest, NoToolResponse)
NewToolRequestPart(name, input) ==
    Part("toolRequest", "", <<>>, [isNil |-> FALSE, Name |-> name, Input |-> input], NoToolResponse)
NewToolResponsePart(name, output) ==
    Part("toolResponse", "", <<>>, NoToolRequest, [isNil |-> FALSE, Name |-> name, Output |-> output])

IsText(part) == part.Kind = "text"
IsMedia(part) == part.Kind = "media"
IsData(part) == part.Kind = "data"
IsToolRequest(part) == part.Kind = "toolRequest"
IsToolResponse(part) == part.Kind = "toolResponse"

\* ai.Message, ai.ToolDefinition
Message(role, content) == [Role |-> role, Content |-> content]
ToolDefinition(name, description, inputSchema) ==
    [Name |-> name, Description |-> description, InputSchema |-> inputSchema]

\* ai.GenerateRequest.Config is an any: nil, a *ai.GenerationCommonConfig (which
\* may be a nil pointer), or a value of another type.
NoConfig == [type |-> "nil"]
OtherConfig == [type |-> "other"]
NilCommonConfig == [type |-> "common", isNil |-> TRUE]
GenerationCommonConfig(maxOutputTokens, stopSequences, temperature, topP) ==
    [type |-> "common", isNil |-> FALSE, MaxOutputTokens |-> maxOutputTokens,
     StopSequences |-> stopSequences, Temperature |-> temperature, TopP |-> topP]

\* ai.GenerateRequest.Output is a *ai.GenerateRequestOutput.
OutputFormatJSON == "json"
OutputFormatText == "text"
NoOutput == [isNil |-> TRUE, Format |-> "", Schema |-> NilMap]
Output(format, schema) == [isNil |-> FALSE, Format |-> format, Schema |-> schema]

GenerateRequest(messages, tools, candidates, config, output) ==
    [Messages |-> messages, Tools |-> tools, Candidates |-> candidates,
     Config |-> config, Output |-> output]

\* --------------------------------------------------------- the vendor types
\* goopenai.ChatMessagePart
NoImageURL == [isNil |-> TRUE, URL |-> <<>>, Detail |-> ""]
ChatMessagePartTypeText == "text"
ChatMessagePartTypeImageURL == "image_url"
ImageURLDetailAuto == "auto"
ToolTypeFunction == "function"
ChatCompletionResponseFormatTypeJSONObject == "json_object"
ChatCompletionResponseFormatTypeText == "text"

\* goopenai.ChatCompletionMessage, zero-valued except for the fields given.
ZeroMessage ==
    [Role |-> "", Content |-> <<>>, MultiContent |-> <<>>, Name |-> "",
     ToolCalls |-> <<>>, ToolCallID |-> ""]

\* *goopenai.ChatCompletionResponseFormat and its *JSONSchema field.
NoJSONSchema == [isNil |-> TRUE, Schema |-> <<>>, Strict |-> FALSE]
NoResponseFormat == [isNil |-> TRUE, Type |-> "", JSONSchema |-> NoJSONSchema]

\* goopenai.ChatCompletionRequest, zero-valued except for the fields given.
ZeroRequest ==
    [Model |-> "", Messages |-> <<>>, Tools |-> <<>>, N |-> 0, MaxTokens |-> 0,
     Stop |-> <<>>, Temperature |-> 0, TopP |-> 0, ResponseFormat |-> NoResponseFormat]

\* A result of a function returning (value, error) that may also panic.
Ok(v) == [status |-> "ok", v |-> v, msg |-> ""]
Err(msg) == [status |-> "err", v |-> <<>>, msg |-> msg]
Panic(msg) == [status |-> "panic", v |-> <<>>, msg |-> msg]

\* ---------------------------------------------------- the request translator
\* float32(x) for a float64 x: the nearest value with the shorter mantissa,
\* ties to even.  Floating-point values are counted in sixteenths, of which
\* float32 keeps only the multiples of four.
float32(x) ==
    LET step == 4
        q == x \div step
        r == x % step
    IN  IF 2 * r < step THEN q * step
        ELSE IF 2 * r > step THEN (q + 1) * step
        ELSE IF q % 2 = 0 THEN q * step ELSE (q + 1) * step

\* Mutant of convertPart: a Part of another kind is sent as text.
convertPartLenient(part) ==
    IF IsMedia(part)
    THEN Ok([Type |-> ChatMessagePartTypeImageURL, Text |-> <<>>,
             ImageURL |-> [isNil |-> FALSE, URL |-> part.Text, Detail |-> ImageURLDetailAuto]])
    ELSE Ok([Type |-> ChatMessagePartTypeText, Text |-> part.Text, ImageURL |-> NoImageURL])

\* convertPart: a Part of a user message -> goopenai.ChatMessagePart.
convertPart(part) ==
    CASE IsText(part) ->
            Ok([Type |-> ChatMessagePartTypeText, Text |-> part.Text, ImageURL |-> NoImageURL])
      [] IsMedia(part) ->
            Ok([Type |-> ChatMessagePartTypeImageURL, Text |-> <<>>,
                ImageURL |-> [isNil |-> FALSE, URL |-> part.Text, Detail |-> ImageURLDetailAuto]])
      [] OTHER -> Err("unknown part type in a request")

RECURSIVE convertUserParts(_, _, _)
\* convertMessages, the loop over the Parts of a user message.
convertUserParts(content, i, multiContent) ==
    IF i > Len(content) THEN Ok(multiContent)
    ELSE LET p == convertPart(content[i])
         IN  IF p.status # "ok" THEN p
             ELSE convertUserParts(content, i + 1, Append(multiContent, p.v))

\* Mutant of convertToolCalls: the loop stops at the first ToolRequest Part.
convertToolCallsFirstOnly(content, i, toolCalls) ==
    IF \A j \in i..Len(content) : ~IsToolRequest(content[j]) THEN Ok(toolCalls)
    ELSE LET first == CHOOSE j \in i..Len(content) :
                         /\ IsToolRequest(content[j])
                         /\ \A k \in i..(j - 1) : ~IsToolRequest(content[k])
         IN  Ok(Append(toolCalls,
                       [ID |-> content[first].ToolRequest.Name,
                        Type |-> ToolTypeFunction,
                        Function |-> [Name |-> content[first].ToolRequest.Name,
                                      Arguments |->
                                          mapToJSONString(content[first].ToolRequest.Input).v]]))

RECURSIVE convertToolCalls(_, _, _)
\* convertMessages, the loop over the Parts of a model message.
convertToolCalls(content, i, toolCalls) ==
    IF i > Len(content) THEN Ok(toolCalls)
    ELSE IF ~IsToolRequest(content[i]) THEN convertToolCalls(content, i + 1, toolCalls)
    ELSE IF content[i].ToolRequest.isNil THEN Panic("nil pointer dereference")
    ELSE LET args == mapToJSONString(content[i].ToolRequest.Input)
         IN  IF args.panic THEN Panic(args.v)
             ELSE convertToolCalls(content, i + 1,
                     Append(toolCalls,
                            [ID |-> content[i].ToolRequest.Name,
                             Type |-> ToolTypeFunction,
                             Function |-> [Name |-> content[i].ToolRequest.Name,
                                           Arguments |-> args.v]]))

RECURSIVE convertToolResponses(_, _, _, _)
\* convertMessages, the loop over the Parts of a tool message.
convertToolResponses(role, content, i, msgs) ==
    IF i > Len(content) THEN Ok(msgs)
    ELSE IF content[i].ToolResponse.isNil THEN Panic("nil pointer dereference")
    ELSE LET out == mapToJSONString(content[i].ToolResponse.Output)
         IN  IF out.panic THEN Panic(out.v)
             ELSE convertToolResponses(role, content, i + 1,
                     Append(msgs, [ZeroMessage EXCEPT !.Role = role,
                                                      !.ToolCallID = content[i].ToolResponse.Name,
                                                      !.Content = out.v,
                                                      !.Name = content[i].ToolResponse.Name]))

RECURSIVE convertMessagesFrom(_, _, _)
\* convertMessages, the loop over the messages, from the i-th on.
convertMessagesFrom(messages, i, msgs) ==
    IF i > Len(messages) THEN Ok(msgs)
    ELSE
    LET m == messages[i]
        r == fromAIRoleToOpenAIRole(m.Role)
        role == r.v
    IN  IF r.panic THEN Panic(r.v)
        ELSE CASE role = ChatMessageRoleUser ->
                    LET mc == convertUserParts(m.Content, 1, <<>>)
                    IN  IF mc.status # "ok" THEN mc
                        ELSE convertMessagesFrom(messages, i + 1,
                                Append(msgs, [ZeroMessage EXCEPT !.Role = role, !.MultiContent = mc.v]))
               [] role = ChatMessageRoleSystem ->
                    IF Len(m.Content) = 0 THEN Panic("index out of range [0] with length 0")
                    ELSE convertMessagesFrom(messages, i + 1,
                            Append(msgs, [ZeroMessage EXCEPT !.Role = role, !.Content = m.Content[1].Text]))
               [] role = ChatMessageRoleAssistant ->
                    LET tc == convertToolCalls(m.Content, 1, <<>>)
                    IN  IF tc.status # "ok" THEN tc
                        ELSE IF Len(tc.v) > 0
                        THEN convertMessagesFrom(messages, i + 1,
                                Append(msgs, [ZeroMessage EXCEPT !.Role = role, !.ToolCalls = tc.v]))
                        ELSE IF Len(m.Content) = 0 THEN Panic("index out of range [0] with length 0")
                        ELSE convertMessagesFrom(messages, i + 1,
                                Append(msgs, [ZeroMessage EXCEPT !.Role = role, !.Content = m.Content[1].Text]))
               [] role = ChatMessageRoleTool ->
                    LET tr == convertToolResponses(role, m.Content, 1, msgs)
                    IN  IF tr.status # "ok" THEN tr
                        ELSE convertMessagesFrom(messages, i + 1, tr.v)
               [] OTHER -> Err("Unknown OpenAI Role " \o role)

\* convertMessages
convertMessages(messages) == convertMessagesFrom(messages, 1, <<>>)

RECURSIVE convertToolsFrom(_, _, _)
\* convertTools, the loop over the tool definitions, from the i-th on.
convertToolsFrom(inTools, i, outTools) ==
    IF i > Len(inTools) THEN Ok(outTools)
    ELSE LET parameters == mapToJSONRawMessage(inTools[i].InputSchema)
         IN  IF parameters.err THEN Err("failed to marshal map to JSON string")
             ELSE convertToolsFrom(inTools, i + 1,
                     Append(outTools,
                            [Type |-> ToolTypeFunction,
                             Function |-> [Name |-> inTools[i].Name,
                                           Description |-> inTools[i].Description,
                                           Parameters |-> parameters.v]]))

\* convertTools
convertTools(inTools) == convertToolsFrom(inTools, 1, <<>>)

\* slices.Contains(modelsSupportingResponseFormats, model)
SupportsResponseFormats(model) ==
    \E i \in 1..Len(modelsSupportingResponseFormats) : modelsSupportingResponseFormats[i] = model

\* Mutant of applyConfig: Temperature and TopP are taken from each other.
applyConfigSwapped(req, config) ==
    IF config.type = "common" /\ ~config.isNil
    THEN [req EXCEPT
            !.MaxTokens = IF config.MaxOutputTokens # 0 THEN config.MaxOutputTokens ELSE @,
            !.Stop = IF Len(config.StopSequences) > 0 THEN config.StopSequences ELSE @,
            !.Temperature = IF config.TopP # 0 THEN float32(config.TopP) ELSE @,
            !.TopP = IF config.Temperature # 0 THEN float32(config.Temperature) ELSE @]
    ELSE req

\* convertRequest, lines 29-42: the optional configuration fields.
applyConfig(req, config) ==
    IF config.type = "common" /\ ~config.isNil
    THEN [req EXCEPT
            !.MaxTokens = IF config.MaxOutputTokens # 0 THEN config.MaxOutputTokens ELSE @,
            !.Stop = IF Len(config.StopSequences) > 0 THEN config.StopSequences ELSE @,
            !.Temperature = IF config.Temperature # 0 THEN float32(config.Temperature) ELSE @,
            !.TopP = IF config.TopP # 0 THEN float32(config.TopP) ELSE @]
    ELSE req

\* convertRequest, lines 44-59: the output format.
applyOutputFormat(req, model, output) ==
    IF ~output.isNil /\ output.Format # "" /\ SupportsResponseFormats(model)
    THEN CASE output.Format = OutputFormatJSON ->
                Ok([req EXCEPT !.ResponseFormat =
                       [isNil |-> FALSE, Type |-> ChatCompletionResponseFormatTypeJSONObject,
                        JSONSchema |-> NoJSONSchema]])
           [] output.Format = OutputFormatText ->
                Ok([req EXCEPT !.ResponseFormat =
                       [isNil |-> FALSE, Type |-> ChatCompletionResponseFormatTypeText,
                        JSONSchema |-> NoJSONSchema]])
           [] OTHER -> Err("unknown part type in a request")
    ELSE Ok(req)

\* convertRequest
convertRequest(model, input) ==
    LET messages == convertMessages(input.Messages)
        tools == convertTools(input.Tools)
    IN  IF messages.status # "ok" THEN messages
        ELSE IF tools.status # "ok" THEN tools
        ELSE applyOutputFormat(
                applyConfig([ZeroRequest EXCEPT !.Model = model,
                                                !.Messages = messages.v,
                                                !.Tools = tools.v,
                                                !.N = input.Candidates],
                            input.Config),
                model, input.Output)

\* --------------------------------------------------- the response translator
\* goopenai.ChatCompletionChoice and goopenai.ChatCompletionResponse
Choice(index, finishReason, content, toolCalls) ==
    [Index |-> index, FinishReason |-> finishReason,
     Message |-> [ZeroMessage EXCEPT !.Role = ChatMessageRoleAssistant,
                                     !.Content = content,
                                     !.ToolCalls = toolCalls]]
ToolCall(id, name, arguments) ==
    [ID |-> id, Type |-> ToolTypeFunction, Function |-> [Name |-> name, Arguments |-> arguments]]
Usage(prompt, completion, total) ==
    [PromptTokens |-> prompt, CompletionTokens |-> completion, TotalTokens |-> total]
ChatCompletionResponse(choices, usage) == [Choices |-> choices, Usage |-> usage]

\* Mutant of appendToolRequest: the Part carries the call's id as its name.
appendToolRequestByID(toolCalls, i, parts, input) ==
    IF input.panic THEN input
    ELSE Val(parts \o [j \in 1..(Len(toolCalls) - i + 1) |->
                          NewToolRequestPart(toolCalls[i + j - 1].ID, input.v)])

RECURSIVE toolRequestPartsFrom(_, _, _)
\* translateCandidate, lines 472-475: the Part of tool call i, its arguments
\* decoded to input.
appendToolRequest(toolCalls, i, parts, input) ==
    IF input.panic THEN input
    ELSE toolRequestPartsFrom(toolCalls, i + 1,
            Append(parts, NewToolRequestPart(toolCalls[i].Function.Name, input.v)))

\* translateCandidate, lines 470-476: the loop over the tool calls.
toolRequestPartsFrom(toolCalls, i, parts) ==
    IF i > Len(toolCalls) THEN Val(parts)
    ELSE Once(LAMBDA input : appendToolRequest(toolCalls, i, parts, input),
              jsonStringToMap(toolCalls[i].Function.Arguments))

\* translateCandidate, lines 477-490: the message, from the tool request
\* Parts or else from the content.
candidateOf(choice, jsonMode, toolRequestParts) ==
    IF toolRequestParts.panic THEN toolRequestParts
    ELSE Val([Index |-> choice.Index,
              FinishReason |-> translateFinishReason(choice.FinishReason),
              Message |->
                  Message(RoleModel,
                          IF Len(toolRequestParts.v) > 0 THEN toolRequestParts.v
                          ELSE IF jsonMode THEN <<NewDataPart(choice.Message.Content)>>
                          ELSE <<NewTextPart(choice.Message.Content)>>)])

\* translateCandidate: goopenai.ChatCompletionChoice -> ai.Candidate.
translateCandidate(choice, jsonMode) ==
    Once(LAMBDA toolRequestParts : candidateOf(choice, jsonMode, toolRequestParts),
         toolRequestPartsFrom(choice.Message.ToolCalls, 1, <<>>))

RECURSIVE translateChoicesFrom(_, _, _, _)
\* translateResponse, line 419: the candidate c of choice i is appended.
appendCandidate(choices, jsonMode, i, candidates, c) ==
    IF c.panic THEN c
    ELSE translateChoicesFrom(choices, jsonMode, i + 1, Append(candidates, c.v))

\* translateResponse, lines 418-420: the loop over the choices.
translateChoicesFrom(choices, jsonMode, i, candidates) ==
    IF i > Len(choices) THEN Val(candidates)
    ELSE Once(LAMBDA c : appendCandidate(choices, jsonMode, i, candidates, c),
              translateCandidate(choices[i], jsonMode))

\* translateResponse, lines 422-428: the response around the candidates;
\* Request is left nil (0), for generate to set.
responseOf(resp, candidates) ==
    IF candidates.panic THEN candidates
    ELSE Val([Candidates |-> candidates.v,
              Usage |-> [InputTokens |-> resp.Usage.PromptTokens,
                         OutputTokens |-> resp.Usage.CompletionTokens,
                         TotalTokens |-> resp.Usage.TotalTokens],
              Custom |-> resp,
              Request |-> 0])

\* translateResponse: goopenai.ChatCompletionResponse -> *ai.GenerateResponse.
translateResponse(resp, jsonMode) ==
    Once(LAMBDA candidates : responseOf(resp, candidates),
         translateChoicesFrom(resp.Choices, jsonMode, 1, <<>>))

\* ------------------------------------------------------------- the registry
\* goopenai.NewClient(apiKey): a fresh client object; its handle is its index.
NewClient(apiKey) == Append(created, apiKey)

\* defineModel(name, caps): ai.DefineModel(provider, name, meta, closure); the
\* closure captures name and reads state.client when it is invoked.
defineModel(reg, name, caps) ==
    [reg EXCEPT ![name] = [defined |-> TRUE,
                           Label |-> labelPrefix \o " - " \o name,
                           Supports |-> caps,
                           closure |-> name]]

\* IsDefinedModel(name) and Model(name): lookups in ai's table.
IsDefinedModel(name) == registry[name].defined
Model(name) == registry[name]

\* The error texts of Init and DefineModel.
ErrNoKey ==
    "OpenAI requires setting " \o apiKeyEnv \o
    " in the environment. You can get an API key at https://platform.openai.com/api-keys"
ErrUnknownModel(name) ==
    provider \o ".DefineModel: called with unknown model " \o name \o " and nil ModelCapabilities"

\* Mutant of orEmptyConfig: the nil config is kept.
keepConfig(cfg) == cfg

\* Init, lines 51-53: a nil config is replaced by &Config{}.
orEmptyConfig(cfg) == IF cfg.isNil THEN [isNil |-> FALSE, APIKey |-> ""] ELSE cfg

\* Mutant of alreadyInitted: Init does not look at state.initted.
neverInitted == FALSE

\* Init, line 56: the check that makes a second Init panic.
alreadyInitted == initted

\* Init, lines 65-68: the credential, from the config, else the environment.
resolveAPIKey(cfg) == IF cfg.APIKey = "" THEN env ELSE cfg.APIKey

\* Init is called.
InitCall(p, cfg) ==
    /\ pc[p] = "idle"
    /\ nCalls < MaxCalls
    /\ nCalls' = nCalls + 1
    /\ frame' = [frame EXCEPT ![p] =
                    [op |-> "Init",
                     arg |-> cfg,
                     cfg |-> orEmptyConfig(cfg),
                     err |-> NilErr,
                     todo |-> {}]]
    /\ ret' = [ret EXCEPT ![p] = NoRet]
    /\ pc' = [pc EXCEPT ![p] = "init_lock"]
    /\ UNCHANGED <<call, mu, initted, client, created, env, registry, regCount, initOK>>

\* Init, line 54: state.mu.Lock().
InitLock(p) ==
    /\ pc[p] = "init_lock"
    /\ mu = 0
    /\ mu' = p
    /\ pc' = [pc EXCEPT ![p] = "init_check"]
    /\ UNCHANGED <<call, initted, client, created, env, registry, regCount, initOK, nCalls, frame, ret>>

\* Init, lines 56-75: the initted check, the credential lookup, the client.
InitCheck(p) ==
    /\ pc[p] = "init_check"
    /\ IF alreadyInitted
       THEN /\ frame' = [frame EXCEPT ![p].err = PanicRet(provider \o ".Init not called")]
            /\ pc' = [pc EXCEPT ![p] = "init_unlock"]
            /\ UNCHANGED <<initted, client, created>>
       ELSE IF frame[p].cfg.isNil
       THEN /\ frame' = [frame EXCEPT ![p].err = PanicRet("nil pointer dereference")]
            /\ pc' = [pc EXCEPT ![p] = "init_unlock"]
            /\ UNCHANGED <<initted, client, created>>
       ELSE LET apiKey == resolveAPIKey(frame[p].cfg)
            IN  IF apiKey = ""
                THEN /\ frame' = [frame EXCEPT ![p].err = ErrRet(ErrNoKey)]
                     /\ pc' = [pc EXCEPT ![p] = "init_unlock"]
                     /\ UNCHANGED <<initted, client, created>>
                ELSE /\ Len(created) < MaxClients
                     /\ created' = NewClient(apiKey)
                     /\ client' = Len(created')
                     /\ initted' = TRUE
                     /\ frame' = [frame EXCEPT ![p].todo = DOMAIN knownCaps]
                     /\ pc' = [pc EXCEPT ![p] = "init_register"]
    /\ UNCHANGED <<call, mu, env, registry, regCount, initOK, nCalls, ret>>

\* Init, lines 76-78: one iteration of the range over knownCaps (Go iterates a
\* map in an unspecified order).
InitRegister(p) ==
    /\ pc[p] = "init_register"
    /\ frame[p].todo # {}
    /\ \E model \in frame[p].todo :
          /\ registry' = defineModel(registry, model, knownCaps[model])
          /\ frame' = [frame EXCEPT ![p].todo = @ \ {model}]
    /\ regCount' = regCount + 1
    /\ UNCHANGED <<call, mu, initted, client, created, env, initOK, nCalls, pc, ret>>

\* Init, line 79: the loop is over, return nil.
InitDone(p) ==
    /\ pc[p] = "init_register"
    /\ frame[p].todo = {}
    /\ pc' = [pc EXCEPT ![p] = "init_unlock"]
    /\ UNCHANGED <<call, mu, initted, client, created, env, registry, regCount, initOK, nCalls, frame, ret>>

\* Init, lines 55 and 59-63: the deferred calls, last in first out: the error
\* is wrapped, then the mutex is released; a panic goes on to the caller.
InitUnlock(p) ==
    /\ pc[p] = "init_unlock"
    /\ mu' = 0
    /\ ret' = [ret EXCEPT ![p] =
                 [op |-> "Init", arg |-> frame[p].arg, kind |-> frame[p].err.kind,
                  val |-> IF frame[p].err.kind = "error"
                          THEN provider \o ".Init: " \o frame[p].err.msg
                          ELSE frame[p].err.msg]]
    /\ initOK' = IF frame[p].err.kind = "nil" THEN initOK + 1 ELSE initOK
    /\ pc' = [pc EXCEPT ![p] = "idle"]
    /\ frame' = [frame EXCEPT ![p] = EmptyFrame]
    /\ UNCHANGED <<call, initted, client, created, env, registry, regCount, nCalls>>

\* Mutant of capsFor: the table wins over the capabilities given.
capsFromTableFirst(name, caps) ==
    IF name \in DOMAIN knownCaps THEN knownCaps[name] ELSE caps.val

\* DefineModel, lines 92-101: the capabilities to register, once the unknown
\* name without capabilities is excluded.
capsFor(name, caps) == IF caps.isNil THEN knownCaps[name] ELSE caps.val

\* Mutant of initNotCalled: DefineModel does not look at state.initted.
initAssumed == FALSE

\* DefineModel, line 89: the check that makes DefineModel panic before Init.
initNotCalled == ~initted

\* DefineModel is called.
DefineModelCall(p, name, caps) ==
    /\ pc[p] = "idle"
    /\ nCalls < MaxCalls
    /\ nCalls' = nCalls + 1
    /\ frame' = [frame EXCEPT ![p] =
                    [op |-> "DefineModel", name |-> name, caps |-> caps,
                     err |-> NilErr]]
    /\ ret' = [ret EXCEPT ![p] = NoRet]
    /\ pc' = [pc EXCEPT ![p] = "dm_lock"]
    /\ UNCHANGED <<call, mu, initted, client, created, env, registry, regCount, initOK>>

\* DefineModel, line 87: state.mu.Lock().
DefineModelLock(p) ==
    /\ pc[p] = "dm_lock"
    /\ mu = 0
    /\ mu' = p
    /\ pc' = [pc EXCEPT ![p] = "dm_body"]
    /\ UNCHANGED <<call, initted, client, created, env, registry, regCount, initOK, nCalls, frame, ret>>

\* DefineModel, lines 89-102.
DefineModelBody(p) ==
    /\ pc[p] = "dm_body"
    /\ LET name == frame[p].name
           caps == frame[p].caps
       IN  IF initNotCalled
           THEN /\ frame' = [frame EXCEPT ![p].err = PanicRet(provider \o ".Init not called")]
                /\ UNCHANGED <<registry, regCount>>
           ELSE IF caps.isNil /\ name \notin DOMAIN knownCaps
           THEN /\ frame' = [frame EXCEPT ![p].err = ErrRet(ErrUnknownModel(name))]
                /\ UNCHANGED <<registry, regCount>>
           ELSE LET mc == capsFor(name, caps)
                IN  /\ registry' = defineModel(registry, name, mc)
                    /\ regCount' = regCount + 1
                    /\ UNCHANGED frame
    /\ pc' = [pc EXCEPT ![p] = "dm_unlock"]
    /\ UNCHANGED <<call, mu, initted, client, created, env, initOK, nCalls, ret>>

\* Mutant of DefineModelUnlock: the mutex is not released on return.
DefineModelKeepsLock(p) ==
    /\ pc[p] = "dm_unlock"
    /\ ret' = [ret EXCEPT ![p] =
                 [op |-> "DefineModel", name |-> frame[p].name, caps |-> frame[p].caps,
                  kind |-> IF frame[p].err.kind = "nil" THEN "model" ELSE frame[p].err.kind,
                  val |-> IF frame[p].err.kind = "nil" THEN frame[p].name ELSE frame[p].err.msg]]
    /\ pc' = [pc EXCEPT ![p] = "idle"]
    /\ frame' = [frame EXCEPT ![p] = EmptyFrame]
    /\ UNCHANGED <<call, mu, initted, client, created, env, registry, regCount, initOK, nCalls>>

\* DefineModel, line 88: the deferred state.mu.Unlock(), and the return.
DefineModelUnlock(p) ==
    /\ pc[p] = "dm_unlock"
    /\ mu' = 0
    /\ ret' = [ret EXCEPT ![p] =
                 [op |-> "DefineModel", name |-> frame[p].name, caps |-> frame[p].caps,
                  kind |-> IF frame[p].err.kind = "nil" THEN "model" ELSE frame[p].err.kind,
                  val |-> IF frame[p].err.kind = "nil" THEN frame[p].name ELSE frame[p].err.msg]]
    /\ pc' = [pc EXCEPT ![p] = "idle"]
    /\ frame' = [frame EXCEPT ![p] = EmptyFrame]
    /\ UNCHANGED <<call, initted, client, created, env, registry, regCount, initOK, nCalls>>

\* ----------------------------------------------------------------- generate
\* The requests callers pass to generate; a *ai.GenerateRequest is the index
\* of its value in this table, and 0 is the nil pointer.
ReqHello ==
    GenerateRequest(<<Message(RoleSystem, <<NewTextPart(Text("You are helpful."))>>),
                      Message(RoleUser, <<NewTextPart(Text("Hello"))>>)>>,
                    <<>>, 1, GenerationCommonConfig(0, <<>>, 16, 0), NoOutput)
ReqJSON ==
    GenerateRequest(<<Message(RoleUser, <<NewTextPart(Text("Capital of France, as JSON"))>>)>>,
                    <<>>, 1, NoConfig,
                    Output(OutputFormatJSON, JMap([type |-> JStr("object")])))
ReqDataPart ==
    GenerateRequest(<<Message(RoleUser, <<NewDataPart(<<"{", "}">>)>>)>>,
                    <<>>, 1, NoConfig, NoOutput)
Requests == <<ReqHello, ReqJSON, ReqDataPart>>

\* The chunk callbacks callers pass: 0 is nil, 1 a callback.
CbArgs == {0, 1}

\* What client.CreateChatCompletion can answer: an error, or a response.
VendorErrors == {"context deadline exceeded"}
RespText ==
    ChatCompletionResponse(<<Choice(0, FinishReasonStop, Text("Paris"), <<>>)>>, Usage(2, 1, 3))
RespToolCall ==
    ChatCompletionResponse(
        <<Choice(0, FinishReasonToolCalls, <<>>,
                 <<ToolCall("call_1", "lookup", <<"{", "\"x\"", ":", "1", "}">>)>>)>>,
        Usage(2, 1, 3))
VendorResponses == {RespText, RespToolCall}

\* What generate hands back to its caller, with what it did on the way: the
\* handles its outbound calls went through and the number of chunk callbacks.
GenRet(kind, val, f) ==
    [op |-> "generate", kind |-> kind, val |-> val, model |-> f.model, input |-> f.input,
     cb |-> f.cb, outbound |-> f.outbound, cbCalls |-> f.cbCalls, vendorErr |-> f.vendorErr]

\* Mutant of closureClient: the closure calls through a client of its own.
ownClient == Len(created) + 1

\* defineModel, line 116: the closure passes state.client, read when it runs.
closureClient == client

\* Mutant of vendorError: the vendor's error is wrapped.
wrappedVendorError(e) == "generate: " \o e

\* generate, lines 143-145: the vendor's error is returned as it is.
vendorError(e) == e

\* Mutant of chunksSent: every choice is delivered to the callback.
chunksStreamed(cb, resp) == IF cb # 0 THEN Len(resp.Choices) ELSE 0

\* generate, lines 131-155: the number of times cb is invoked for a response.
chunksSent(cb, resp) == 0

\* The closure registered by defineModel is invoked (line 116): it reads
\* state.client, without the mutex, and calls generate.
GenerateCall(p, name, input, cb) ==
    /\ pc[p] = "idle"
    /\ nCalls < MaxCalls
    /\ IsDefinedModel(name)
    /\ nCalls' = nCalls + 1
    /\ frame' = [frame EXCEPT ![p] =
                    [op |-> "generate", client |-> closureClient, model |-> Model(name).closure,
                     input |-> input, cb |-> cb, req |-> ZeroRequest,
                     resp |-> ChatCompletionResponse(<<>>, Usage(0, 0, 0)),
                     vendorErr |-> "", outbound |-> <<>>, cbCalls |-> 0]]
    /\ ret' = [ret EXCEPT ![p] = NoRet]
    /\ pc' = [pc EXCEPT ![p] = "gen_convert"]
    /\ UNCHANGED <<call, mu, initted, client, created, env, registry, regCount, initOK>>

\* generate, lines 138-141: convertRequest.
GenerateConvert(p) ==
    /\ pc[p] = "gen_convert"
    /\ LET r == convertRequest(frame[p].model, Requests[frame[p].input])
       IN  IF r.status = "ok"
           THEN /\ frame' = [frame EXCEPT ![p].req = r.v]
                /\ pc' = [pc EXCEPT ![p] = "gen_vendor"]
                /\ UNCHANGED ret
           ELSE /\ ret' = [ret EXCEPT ![p] =
                             GenRet(IF r.status = "err" THEN "error" ELSE "panic", r.msg, frame[p])]
                /\ frame' = [frame EXCEPT ![p] = EmptyFrame]
                /\ pc' = [pc EXCEPT ![p] = "idle"]
    /\ UNCHANGED <<call, mu, initted, client, created, env, registry, regCount, initOK, nCalls>>

\* generate, lines 142-145: the outbound call, and the return of its error.
GenerateVendor(p) ==
    /\ pc[p] = "gen_vendor"
    /\ IF frame[p].client = 0
       THEN /\ ret' = [ret EXCEPT ![p] = GenRet("panic", "nil pointer dereference", frame[p])]
            /\ frame' = [frame EXCEPT ![p] = EmptyFrame]
            /\ pc' = [pc EXCEPT ![p] = "idle"]
       ELSE LET f == [frame[p] EXCEPT !.outbound = Append(@, frame[p].client)]
            IN  \/ \E e \in VendorErrors :
                      /\ ret' = [ret EXCEPT ![p] =
                                   GenRet("error", vendorError(e), [f EXCEPT !.vendorErr = e])]
                      /\ frame' = [frame EXCEPT ![p] = EmptyFrame]
                      /\ pc' = [pc EXCEPT ![p] = "idle"]
                \/ \E resp \in VendorResponses :
                      /\ frame' = [frame EXCEPT ![p] = [f EXCEPT !.resp = resp]]
                      /\ pc' = [pc EXCEPT ![p] = "gen_translate"]
                      /\ UNCHANGED ret
    /\ UNCHANGED <<call, mu, initted, client, created, env, registry, regCount, initOK, nCalls>>

\* Mutant of jsonModeOf: any output spec turns jsonMode on.
jsonModeOfAnyOutput(input) == ~input.Output.isNil

\* generate, lines 147-151: jsonMode, from the request's output format only.
jsonModeOf(input) == ~input.Output.isNil /\ input.Output.Format = OutputFormatJSON

\* Mutant of attachRequest: the response is returned as translateResponse built it.
dropRequest(r, input) == r

\* generate, line 153: r.Request = input, on the response translateResponse built.
attachRequest(r, input) ==
    IF r.panic THEN r
    ELSE Val([Candidates |-> r.v.Candidates, Usage |-> r.v.Usage,
              Custom |-> r.v.Custom, Request |-> input])

\* generate, lines 147-153: jsonMode, translateResponse, r.Request = input.
translateAndAttach(resp, input) ==
    Once(LAMBDA r : attachRequest(r, input),
         translateResponse(resp, jsonModeOf(Requests[input])))

\* generate, lines 152-154: the translation and the return.
GenerateTranslate(p) ==
    /\ pc[p] = "gen_translate"
    /\ \E r \in {translateAndAttach(frame[p].resp, frame[p].input)} :
          ret' = [ret EXCEPT ![p] =
                    GenRet(IF r.panic THEN "panic" ELSE "response", r.v,
                           [frame[p] EXCEPT !.cbCalls = @ + chunksSent(frame[p].cb, frame[p].resp)])]
    /\ frame' = [frame EXCEPT ![p] = EmptyFrame]
    /\ pc' = [pc EXCEPT ![p] = "idle"]
    /\ UNCHANGED <<call, mu, initted, client, created, env, registry, regCount, initOK, nCalls>>

\* What client.CreateChatCompletion answers to one call.
VendorAnswers ==
    {[isErr |-> TRUE, err |-> e, resp |-> ChatCompletionResponse(<<>>, Usage(0, 0, 0))] :
        e \in VendorErrors} \cup
    {[isErr |-> FALSE, err |-> "", resp |-> resp] : resp \in VendorResponses}

\* What a generate call did and returned: the vendor request it built, the
\* number of outbound calls and of chunk callbacks, and its result.
GenerateResult(kind, val, req, outbound, cbCalls) ==
    [kind |-> kind, val |-> val, req |-> req, outbound |-> outbound, cbCalls |-> cbCalls]

\* generate, lines 147-154, on the vendor's response.
generateTranslated(r, req, cb, resp) ==
    GenerateResult(IF r.panic THEN "panic" ELSE "response", r.v, req, 1, chunksSent(cb, resp))

\* generate, lines 142-154, on the vendor request req that convertRequest built.
generateConverted(req, clientHandle, input, cb, answer) ==
    IF clientHandle = 0
    THEN GenerateResult("panic", "nil pointer dereference", req, 0, 0)
    ELSE IF answer.isErr
    THEN GenerateResult("error", vendorError(answer.err), req, 1, 0)
    ELSE Once(LAMBDA r : generateTranslated(r, req, cb, answer.resp),
              Once(LAMBDA r : attachRequest(r, input),
                   translateResponse(answer.resp, jsonModeOf(input))))

\* generate, lines 138-141, on the result r of convertRequest.
generateFrom(r, clientHandle, input, cb, answer) ==
    IF r.status # "ok"
    THEN GenerateResult(IF r.status = "err" THEN "error" ELSE "panic", r.msg, ZeroRequest, 0, 0)
    ELSE generateConverted(r.v, clientHandle, input, cb, answer)

\* generate as a function of its arguments and of the vendor's answer: it
\* reads no package state.  GenerateConvert, GenerateVendor and
\* GenerateTranslate are its steps as other goroutines see them.
generate(clientHandle, model, input, cb, answer) ==
    Once(LAMBDA r : generateFrom(r, clientHandle, input, cb, answer),
         convertRequest(model, input))

Init ==
    /\ mu = 0
    /\ initted = FALSE
    /\ client = 0
    /\ created = <<>>
    /\ env \in EnvValues
    /\ registry = [n \in ModelNames |-> NoEntry]
    /\ regCount = 0
    /\ initOK = 0
    /\ nCalls = 0
    /\ pc = [p \in Procs |-> "idle"]
    /\ frame = [p \in Procs |-> EmptyFrame]
    /\ ret = [p \in Procs |-> NoRet]
    /\ call = NoCall

Next ==
    \/ \E p \in Procs, cfg \in ConfigArgs : InitCall(p, cfg)
    \/ \E p \in Procs : InitLock(p)
    \/ \E p \in Procs : InitCheck(p)
    \/ \E p \in Procs : InitRegister(p)
    \/ \E p \in Procs : InitDone(p)
    \/ \E p \in Procs : InitUnlock(p)
    \/ \E p \in Procs, name \in DefineNames, caps \in CapsArgs : DefineModelCall(p, name, caps)
    \/ \E p \in Procs : DefineModelLock(p)
    \/ \E p \in Procs : DefineModelBody(p)
    \/ \E p \in Procs : DefineModelUnlock(p)
    \/ \E p \in Procs, name \in ModelNames, input \in 1..Len(Requests), cb \in CbArgs :
          GenerateCall(p, name, input, cb)
    \/ \E p \in Procs : GenerateConvert(p)
    \/ \E p \in Procs : GenerateVendor(p)
    \/ \E p \in Procs : GenerateTranslate(p)

Spec == Init /\ [][Next]_vars

\* ------------------------------------- the translation functions on their own
\* The arguments the translation functions are called with.
AIRoleInputs == {RoleUser, RoleSystem, RoleModel, RoleTool, "assistant", "function", "admin", ""}
VendorRoleInputs ==
    {ChatMessageRoleUser, ChatMessageRoleSystem, ChatMessageRoleAssistant, ChatMessageRoleTool,
     ChatMessageRoleFunction, "model", "developer", ""}
FinishReasonInputs ==
    {FinishReasonStop, FinishReasonLength, FinishReasonFunctionCall, FinishReasonToolCalls,
     FinishReasonContentFilter, FinishReasonNull, "", "eos_token", "STOP"}
ContentInputs == {Text("Paris"), <<"{", "\"x\"", ":", "1", "}">>, <<>>}
ArgumentsX1 == <<"{", "\"x\"", ":", "1", "}">>
ArgumentsEmpty == <<"{", "}">>
ArgumentsTruncated == <<"{", "\"x\"", ":">>
ToolCallsInputs ==
    {<<>>,
     <<ToolCall("call_1", "lookup", ArgumentsX1)>>,
     <<ToolCall("call_1", "lookup", ArgumentsX1), ToolCall("call_2", "gablorken", ArgumentsEmpty)>>,
     <<ToolCall("call_1", "lookup", ArgumentsTruncated)>>}
ChoiceInputs ==
    {Choice(index, fr, content, toolCalls) :
        index \in {0, 1}, fr \in FinishReasonInputs,
        content \in ContentInputs, toolCalls \in ToolCallsInputs}

\* Each function is applied once, to a fresh program: none reads state.
CallFromAIRoleToOpenAIRole(aiRole) ==
    /\ call = NoCall
    /\ call' = [fn |-> "fromAIRoleToOpenAIRole", aiRole |-> aiRole,
                out |-> fromAIRoleToOpenAIRole(aiRole)]
    /\ UNCHANGED progVars

CallToOpenAIRole(role) ==
    /\ call = NoCall
    /\ call' = [fn |-> "toOpenAIRole", role |-> role, out |-> toOpenAIRole(role)]
    /\ UNCHANGED progVars

\* A generic role is mapped to the vendor's and the result mapped back.
CallRoleRoundTrip(aiRole) ==
    /\ call = NoCall
    /\ LET there == fromAIRoleToOpenAIRole(aiRole)
       IN  call' = [fn |-> "roundTrip", aiRole |-> aiRole, there |-> there,
                    out |-> IF there.panic THEN there ELSE toOpenAIRole(there.v)]
    /\ UNCHANGED progVars

CallTranslateCandidate(choice, jsonMode) ==
    /\ call = NoCall
    /\ call' = [fn |-> "translateCandidate", choice |-> choice, jsonMode |-> jsonMode,
                out |-> translateCandidate(choice, jsonMode)]
    /\ UNCHANGED progVars

\* The messages convertMessages is called with: for each role, contents of
\* none, one and several Parts of the kinds the role is sent with and of
\* other kinds; the lists are those of at most MaxMessages of them.
InputX1 == JMap([x |-> JNum("int", 1)])
InputNested == JMap([over |-> JMap([value |-> JArr(<<JBool(TRUE), JNull>>)]), x |-> JStr("Paris")])
LookupRequest == NewToolRequestPart("lookup", InputX1)
GablorkenRequest == NewToolRequestPart("gablorken", InputNested)
LookupResponse == NewToolResponsePart("lookup", InputX1)
GablorkenResponse == NewToolResponsePart("gablorken", JMap(EmptyMap))
ImagePart == NewMediaPart("image/png", Text("https://example.com/cat.png"))
ContentsInputs ==
    [system |-> {<<>>, <<NewTextPart(Text("You are helpful."))>>,
                 <<NewTextPart(Text("You are helpful.")), NewTextPart(Text("Be brief."))>>},
     user |-> {<<>>, <<NewTextPart(Text("Hello"))>>,
               <<NewTextPart(Text("Hello")), ImagePart>>,
               <<ImagePart, NewTextPart(Text("Hello")), NewTextPart(Text("Be brief."))>>,
               <<NewTextPart(Text("Hello")), NewDataPart(<<"{", "}">>)>>,
               <<LookupResponse, NewTextPart(Text("Hello"))>>},
     model |-> {<<>>, <<NewTextPart(Text("Paris"))>>,
                <<NewTextPart(Text("Paris")), NewTextPart(Text("Be brief."))>>,
                <<LookupRequest>>,
                <<NewTextPart(Text("Paris")), GablorkenRequest, ImagePart, LookupRequest>>},
     tool |-> {<<>>, <<LookupResponse>>, <<GablorkenResponse, LookupResponse>>,
               <<NewTextPart(Text("Paris"))>>},
     admin |-> {<<NewTextPart(Text("Hello"))>>}]
MessageInputs ==
    UNION {{Message(role, content) : content \in ContentsInputs[role]} :
              role \in DOMAIN ContentsInputs}
MaxMessages == 2
MessagesInputs == UNION {[1..n -> MessageInputs] : n \in 0..MaxMessages}

\* The requests convertRequest is called with: the configurations, the output
\* specifications and the message lists, each varied with the rest fixed.
HelloMessages == <<Message(RoleUser, <<NewTextPart(Text("Hello"))>>)>>
SchemaObject == JMap([type |-> JStr("object")])
FloatInputs == {0, 1, 2, 6, 16, 24}
ConfigInputs ==
    {NoConfig, OtherConfig, NilCommonConfig} \cup
    {GenerationCommonConfig(maxOutputTokens, stopSequences, temperature, topP) :
        maxOutputTokens \in {0, 256}, stopSequences \in {<<>>, <<"END", "STOP">>},
        temperature \in FloatInputs, topP \in FloatInputs}
ConfigRequests ==
    {GenerateRequest(HelloMessages, <<>>, 1, config, NoOutput) : config \in ConfigInputs}
OutputInputs ==
    {NoOutput, Output("", SchemaObject), Output(OutputFormatJSON, SchemaObject),
     Output(OutputFormatJSON, NilMap), Output(OutputFormatText, NilMap),
     Output("media", NilMap), Output("xml", SchemaObject)}
OutputRequests ==
    {GenerateRequest(HelloMessages, <<>>, 1, NoConfig, output) : output \in OutputInputs}
MessagesRequests ==
    {GenerateRequest(messages, <<>>, 1, NoConfig, NoOutput) : messages \in MessagesInputs}
\* The configurations and output specifications go with every model, the
\* message lists, which convertRequest handles the same for all, with one.
ConvertRequestArgs ==
    (ModelNames \X (ConfigRequests \cup OutputRequests)) \cup ({GPT4o} \X MessagesRequests)

\* convertRequest is applied once, to a fresh program: it reads no state.
CallConvertRequest(model, input) ==
    /\ call = NoCall
    /\ call' = [fn |-> "convertRequest", model |-> model, input |-> input,
                out |-> convertRequest(model, input)]
    /\ UNCHANGED progVars

\* convertMessages is applied once, to a fresh program.
CallConvertMessages(messages) ==
    /\ call = NoCall
    /\ call' = [fn |-> "convertMessages", messages |-> messages,
                out |-> convertMessages(messages)]
    /\ UNCHANGED progVars

\* The tool-input mappings that are encoded and decoded again: the nil and
\* the empty mapping, and mappings of one or two keys to scalars, arrays and
\* nested mappings, with numbers held as Go int and as float64.
ScalarInputs ==
    {JNull, JBool(TRUE), JNum("int", 1), JNum("float64", 1), JNum("float64", 2), JStr("Paris")}
ValueInputs ==
    ScalarInputs
        \cup {JArr(<<>>), JArr(<<JNum("int", 1), JStr("Paris")>>), JArr(<<JBool(TRUE), JNull>>),
              JMap(EmptyMap), NilMap, JUnsupported}
        \cup {JMap([x |-> v]) : v \in ScalarInputs}
MapInputs ==
    {NilMap, JMap(EmptyMap)}
        \cup {JMap([x |-> v]) : v \in ValueInputs}
        \cup {JMap([over |-> v, x |-> w]) : v \in ValueInputs, w \in ScalarInputs}

\* mapToJSONString and then jsonStringToMap on its result, on a fresh program.
jsonRoundTrip(enc) == IF enc.panic THEN enc ELSE jsonStringToMap(enc.v)
CallJSONRoundTrip(data) ==
    /\ call = NoCall
    /\ \E enc \in {mapToJSONString(data)} :
          call' = [fn |-> "jsonRoundTrip", data |-> data, enc |-> enc,
                   out |-> jsonRoundTrip(enc)]
    /\ UNCHANGED progVars

\* The vendor responses translateResponse is called with: at most MaxChoices
\* choices, each with or without tool calls and text.
MaxChoices == 2
ResponseChoices ==
    {Choice(index, FinishReasonStop, content, toolCalls) :
        index \in {0, 1}, content \in {Text("Paris"), ArgumentsX1},
        toolCalls \in ToolCallsInputs}
ResponseInputs ==
    {ChatCompletionResponse(choices, Usage(2, 1, 3)) :
        choices \in UNION {[1..n -> ResponseChoices] : n \in 0..MaxChoices}}

\* translateResponse is applied once, to a fresh program.
CallTranslateResponse(resp, jsonMode) ==
    /\ call = NoCall
    /\ call' = [fn |-> "translateResponse", resp |-> resp, jsonMode |-> jsonMode,
                out |-> translateResponse(resp, jsonMode)]
    /\ UNCHANGED progVars

\* The requests generate is called with on its own.
DataPartMessages ==
    <<Message(RoleUser, <<NewTextPart(Text("Hello")), NewDataPart(<<"{", "}">>)>>)>>
GenerateInputs ==
    OutputRequests \cup {GenerateRequest(DataPartMessages, <<>>, 1, NoConfig, NoOutput)}

\* generate is applied once, to a fresh program.
CallGenerate(model, input, cb, answer) ==
    /\ call = NoCall
    /\ call' = [fn |-> "generate", model |-> model, input |-> input, cb |-> cb,
                answer |-> answer, out |-> generate(1, model, input, cb, answer)]
    /\ UNCHANGED progVars

PureNext ==
    \/ \E aiRole \in AIRoleInputs : CallFromAIRoleToOpenAIRole(aiRole)
    \/ \E role \in VendorRoleInputs : CallToOpenAIRole(role)
    \/ \E aiRole \in AIRoleInputs : CallRoleRoundTrip(aiRole)
    \/ \E choice \in ChoiceInputs, jsonMode \in BOOLEAN : CallTranslateCandidate(choice, jsonMode)
    \/ \E args \in ConvertRequestArgs : CallConvertRequest(args[1], args[2])
    \/ \E model \in ModelNames, input \in GenerateInputs, cb \in CbArgs, answer \in VendorAnswers :
          CallGenerate(model, input, cb, answer)
    \/ \E messages \in MessagesInputs : CallConvertMessages(messages)
    \/ \E resp \in ResponseInputs, jsonMode \in BOOLEAN : CallTranslateResponse(resp, jsonMode)
    \/ \E data \in MapInputs : CallJSONRoundTrip(data)

SpecPure == Init /\ [][PureNext]_vars

\* ------------------------------------------------------------------ claims
GenPcs == {"gen_convert", "gen_vendor", "gen_translate"}
LockedPcs == {"init_check", "init_register", "init_unlock", "dm_body", "dm_unlock"}
SharedState == <<mu, initted, client, created, env, registry, regCount, initOK>>

\* C1: once an Init has returned nil, every Init call panics: in every
\* interleaving at most one Init returns nil, and each step of a later Init
\* call constructs no client, registers no model and ends in the panic.
C1_SecondInitPanics ==
    [][/\ initOK' <= 1
       /\ \A p \in Procs :
            (frame[p].op = "Init" /\ initOK >= 1 /\ pc'[p] # pc[p]) =>
                /\ created' = created /\ client' = client
                /\ registry' = registry /\ regCount' = regCount
                /\ (pc[p] = "init_check" => frame'[p].err.kind = "panic")
                /\ (pc'[p] = "idle" => ret'[p].op = "Init" /\ ret'[p].kind = "panic")]_vars

\* A second Init has panicked after the first returned nil.
C1_Witness ==
    \E p \in Procs : ret[p].op = "Init" /\ ret[p].kind = "panic" /\ initOK = 1 /\ Len(created) = 1

\* C2: on a plugin that is not initialized, Init with a nil config or an empty
\* APIKey and an empty OPENAI_API_KEY returns an error, not a panic, and
\* changes nothing: initted stays false, client nil, no client is constructed,
\* no model registered; a credential in the config is the one the client is
\* constructed with, whatever the environment holds.
C2_NoCredential ==
    [][\A p \in Procs :
         /\ (pc[p] = "init_check" /\ pc'[p] # pc[p] /\ ~initted) =>
              /\ ((frame[p].arg.isNil \/ frame[p].arg.APIKey = "") /\ env = "") =>
                    /\ frame'[p].err.kind = "error"
                    /\ ~initted' /\ client' = 0 /\ created' = created
                    /\ registry' = registry /\ regCount' = regCount
              /\ (~frame[p].arg.isNil /\ frame[p].arg.APIKey # "") =>
                    /\ created' = Append(created, frame[p].arg.APIKey)
                    /\ initted' /\ client' = Len(created')
         /\ (pc[p] = "init_unlock" /\ pc'[p] = "idle" /\ frame[p].err.kind = "error") =>
              /\ ret'[p].op = "Init" /\ ret'[p].kind = "error"
              /\ initted' = initted /\ client' = client /\ created' = created
              /\ registry' = registry /\ regCount' = regCount]_vars

\* Init(nil) has returned the error with an empty environment, and the plugin
\* is as it was constructed.
C2_Witness ==
    \E p \in Procs :
        /\ ret[p].op = "Init" /\ ret[p].kind = "error" /\ ret[p].arg.isNil
        /\ env = "" /\ ~initted /\ client = 0 /\ regCount = 0

\* C3: after Init, DefineModel(name, nil) registers a name of knownCaps with
\* the capabilities of the table, and for any other name returns the error
\* about the unknown model and nil capabilities and registers nothing;
\* DefineModel(name, caps) registers name with exactly caps, known or not.
C3_DefineModel ==
    [][\A p \in Procs :
         /\ (pc[p] = "dm_body" /\ pc'[p] # pc[p] /\ initted) =>
              LET name == frame[p].name
                  caps == frame[p].caps
              IN  /\ \A n \in ModelNames \ {name} : registry'[n] = registry[n]
                  /\ IF caps.isNil /\ name \notin DOMAIN knownCaps
                     THEN /\ frame'[p].err = ErrRet(ErrUnknownModel(name))
                          /\ registry' = registry /\ regCount' = regCount
                     ELSE /\ frame'[p].err.kind = "nil"
                          /\ regCount' = regCount + 1
                          /\ registry'[name].defined
                          /\ registry'[name].closure = name
                          /\ registry'[name].Supports =
                                IF caps.isNil THEN knownCaps[name] ELSE caps.val
         /\ (pc[p] = "dm_unlock" /\ pc'[p] = "idle") =>
              /\ registry' = registry /\ regCount' = regCount
              /\ ret'[p].kind = IF frame[p].err.kind = "nil" THEN "model" ELSE frame[p].err.kind]_vars

\* The unknown name was registered with capabilities given, GPT4o registered
\* with capabilities other than the table's, and a call without capabilities
\* has returned the error.
C3_Witness ==
    /\ \E n \in DOMAIN knownCaps : registry[n].defined /\ registry[n].Supports # knownCaps[n]
    /\ \E p \in Procs : ret[p].op = "DefineModel" /\ ret[p].kind = "error"

\* C4, the state part: at most one client has been constructed, state.client
\* is nil or that client, and every outbound call of every generate, running
\* or returned, went through it.
C4_Inv ==
    /\ Len(created) <= 1
    /\ client \in {0, Len(created)}
    /\ \A p \in Procs :
         /\ frame[p].op = "generate" =>
              /\ frame[p].client = client /\ client # 0
              /\ \A i \in 1..Len(frame[p].outbound) : frame[p].outbound[i] = client
         /\ ret[p].op = "generate" =>
              \A i \in 1..Len(ret[p].outbound) : ret[p].outbound[i] = client

\* C4: at most one vendor client is ever constructed, state.client is never
\* reassigned once set, and every closure registered by Init or DefineModel
\* makes its outbound call through that client.
C4_OneClient == []C4_Inv /\ [][client # 0 => client' = client]_vars

\* A closure registered by DefineModel has made its outbound call.
C4_Witness ==
    \E p \in Procs :
        /\ ret[p].op = "generate" /\ ret[p].model = CustomModel
        /\ ret[p].outbound = <<client>> /\ client = 1

\* A step of generate for goroutine p.
GenerateStep(p) == GenerateConvert(p) \/ GenerateVendor(p) \/ GenerateTranslate(p)

\* C5, the state part: the mutex is held only by a goroutine inside Init or
\* DefineModel, never by one in generate, and a goroutine in generate can take
\* its next step whoever holds the mutex.
C5_Inv ==
    /\ mu # 0 => pc[mu] \in LockedPcs
    /\ \A p \in Procs : pc[p] \in GenPcs => (mu # p /\ ENABLED GenerateStep(p))

\* C5: the mutex is held only inside Init and DefineModel; generate never
\* acquires it, is never blocked by a registration in progress, and writes no
\* shared state.
C5_LockFreeGenerate ==
    /\ []C5_Inv
    /\ [][\A p \in Procs :
            ((frame[p].op = "generate" \/ frame'[p].op = "generate") /\ pc'[p] # pc[p])
               => UNCHANGED SharedState]_vars

\* One goroutine is in DefineModel with the mutex, having registered, while
\* the other is in generate past its outbound call.
C5_Witness ==
    \E p \in Procs, q \in Procs :
        /\ pc[q] = "dm_unlock" /\ mu = q /\ frame[q].err.kind = "nil"
        /\ pc[p] = "gen_translate" /\ Len(frame[p].outbound) = 1

\* C6: a generate makes at most one outbound call, and when that call returns
\* an error generate returns this very error, no response, and made no other
\* call.
C6_NoRetry ==
    \A p \in Procs :
        /\ frame[p].op = "generate" => Len(frame[p].outbound) <= 1
        /\ ret[p].op = "generate" =>
             /\ Len(ret[p].outbound) <= 1
             /\ ret[p].vendorErr # "" =>
                  /\ ret[p].kind = "error" /\ ret[p].val = ret[p].vendorErr
                  /\ Len(ret[p].outbound) = 1

\* A generate has returned the vendor's error.
C6_Witness ==
    \E p \in Procs : ret[p].op = "generate" /\ ret[p].vendorErr \in VendorErrors

\* C7: generate never invokes the chunk callback: not when convertRequest
\* fails, not when the vendor fails, not when it returns a response.
C7_CallbackInert ==
    \A p \in Procs :
        /\ frame[p].op = "generate" => frame[p].cbCalls = 0
        /\ ret[p].op = "generate" => ret[p].cbCalls = 0

\* A generate that was given a callback has returned a response.
C7_Witness ==
    \E p \in Procs : ret[p].op = "generate" /\ ret[p].cb # 0 /\ ret[p].kind = "response"

\* C8: the Request of every response generate returns is the request pointer
\* it was called with.
C8_RequestAttached ==
    \A p \in Procs :
        (ret[p].op = "generate" /\ ret[p].kind = "response") =>
            (ret[p].val.Request = ret[p].input /\ ret[p].val.Request # 0)

\* A generate with the JSON request has returned the response with the tool call.
C8_Witness ==
    \E p \in Procs :
        /\ ret[p].op = "generate" /\ ret[p].kind = "response"
        /\ Requests[ret[p].input] = ReqJSON /\ ret[p].val.Custom = RespToolCall

\* The finish reason the mapping is said to give for a vendor value.
C9_Table(fr) ==
    IF fr = "stop" \/ fr = "tool_calls" THEN "stop"
    ELSE IF fr = "length" THEN "length"
    ELSE IF fr = "content_filter" THEN "blocked"
    ELSE IF fr = "function_call" THEN "other"
    ELSE "unknown"

\* C9: translateCandidate maps every vendor finish reason, the null value and
\* values the code does not know included, by the table stop, tool_calls ->
\* Stop, length -> Length, content_filter -> Blocked, function_call -> Other,
\* anything else -> Unknown; no finish reason makes it fail: it panics only on
\* tool-call arguments that are not a JSON object.
C9_FinishReasonTotal ==
    call.fn = "translateCandidate" =>
        /\ call.out.panic <=>
              \E i \in 1..Len(call.choice.Message.ToolCalls) :
                  call.choice.Message.ToolCalls[i].Function.Arguments = ArgumentsTruncated
        /\ ~call.out.panic => call.out.v.FinishReason = C9_Table(call.choice.FinishReason)

\* A choice with a finish reason the code does not know has been translated
\* to a candidate with finish reason Unknown.
C9_Witness ==
    /\ call.fn = "translateCandidate" /\ call.choice.FinishReason = "eos_token"
    /\ ~call.out.panic /\ call.out.v.FinishReason = AIFinishReasonUnknown

C10_AIRoles == {RoleUser, RoleSystem, RoleModel, RoleTool}
C10_VendorRoles ==
    {ChatMessageRoleUser, ChatMessageRoleSystem, ChatMessageRoleAssistant, ChatMessageRoleTool}

\* The round trip of the four generic roles, and generic -> vendor injective
\* on them and failing on every other value.
C10_FromAIRole ==
    /\ call.fn = "roundTrip" =>
          IF call.aiRole \in C10_AIRoles
          THEN ~call.there.panic /\ call.there.v \in C10_VendorRoles
               /\ call.out = Val(call.aiRole)
          ELSE call.there.panic /\ call.out.panic
    /\ call.fn = "fromAIRoleToOpenAIRole" =>
          IF call.aiRole \in C10_AIRoles
          THEN /\ ~call.out.panic
               /\ \A other \in C10_AIRoles \ {call.aiRole} :
                     fromAIRoleToOpenAIRole(other) # call.out
          ELSE call.out.panic

C11_Nearest32(x) ==
    CHOOSE y \in {4 * k : k \in 0..((x \div 4) + 1)} :
        \A z \in {4 * k : k \in 0..((x \div 4) + 1)} :
            \/ 2 * (IF y > x THEN y - x ELSE x - y) < 2 * (IF z > x THEN z - x ELSE x - z)
            \/ /\ (IF y > x THEN y - x ELSE x - y) = (IF z > x THEN z - x ELSE x - z)
               /\ (y = z \/ (y \div 4) % 2 = 0)

\* A convertRequest call that returned a vendor request.
C11_Converted == call.fn = "convertRequest" /\ call.out.status = "ok"
C11_HasConfig == call.input.Config.type = "common" /\ ~call.input.Config.isNil

\* Max tokens and stop sequences are forwarded iff non-zero (non-empty), as
\* they are; with no config, a nil config or a config of another type all four
\* vendor fields are unset.
C11_IntegerAndStop ==
    C11_Converted =>
        IF C11_HasConfig
        THEN /\ call.out.v.MaxTokens = call.input.Config.MaxOutputTokens
             /\ call.out.v.Stop = call.input.Config.StopSequences
        ELSE /\ call.out.v.MaxTokens = 0 /\ call.out.v.Stop = <<>>
             /\ call.out.v.Temperature = 0 /\ call.out.v.TopP = 0

\* C11 as stated: each of temperature, max tokens, top-p and stop sequences
\* is set in the vendor request iff the generic field is non-zero, and then
\* equals it.
C11_Original ==
    /\ C11_IntegerAndStop
    /\ (C11_Converted /\ C11_HasConfig) =>
          /\ call.out.v.Temperature = call.input.Config.Temperature
          /\ call.out.v.TopP = call.input.Config.TopP

\* C11, amended: max tokens and stop sequences are set iff the generic field
\* is non-zero (non-empty) and then equal it; temperature and top-p are unset
\* when the generic field is zero and otherwise hold the generic float64
\* value converted to float32, which is its nearest float32 and not always
\* the value itself (a value too small for float32 becomes zero, that is
\* unset); with no config or a config of another type all four are unset.
C11_ZeroConfigFields ==
    /\ C11_IntegerAndStop
    /\ (C11_Converted /\ C11_HasConfig) =>
          /\ call.out.v.Temperature = C11_Nearest32(call.input.Config.Temperature)
          /\ call.out.v.TopP = C11_Nearest32(call.input.Config.TopP)

\* A config with temperature 1.0 and top-p unset has been converted: the
\* vendor request has temperature 1.0, max tokens 256, and no top-p.
C11_Witness ==
    /\ C11_Converted /\ C11_HasConfig
    /\ call.input.Config.Temperature = 16 /\ call.input.Config.TopP = 0
    /\ call.input.Config.MaxOutputTokens = 256
    /\ call.out.v.Temperature = 16 /\ call.out.v.TopP = 0 /\ call.out.v.MaxTokens = 256

\* A convertRequest call on a request that asks for JSON or plain-text output.
C12_AsksFormat ==
    /\ call.fn = "convertRequest" /\ ~call.input.Output.isNil
    /\ call.input.Output.Format \in {"json", "text"}
C12_AllowList == {"gpt-4o", "gpt-4o-mini", "gpt-4-turbo"}

\* The response format is set iff the request asks for JSON or plain text and
\* the model is allow-listed, with type JSON-object or text respectively;
\* without an allow-listed model, an output spec or a format it is unset,
\* and no error is returned.
C12_FormatSetIffAllowed ==
    /\ C12_AsksFormat =>
          /\ call.out.status = "ok"
          /\ ~call.out.v.ResponseFormat.isNil <=> call.model \in C12_AllowList
          /\ ~call.out.v.ResponseFormat.isNil =>
                call.out.v.ResponseFormat.Type =
                    (IF call.input.Output.Format = "json" THEN "json_object" ELSE "text")
    /\ (/\ call.fn = "convertRequest"
        /\ \/ call.input.Output.isNil \/ call.input.Output.Format = ""
           \/ (C12_AsksFormat /\ call.model \notin C12_AllowList)) =>
          call.out.status = "ok" /\ call.out.v.ResponseFormat.isNil

\* C12: for a request asking for JSON or plain-text output, convertRequest
\* sets the vendor response format, JSON-object carrying the JSON-encoded
\* schema or text, iff the model is in the allow-list; for a model outside
\* it, and with no output spec or an empty format, the response format is
\* unset and no error is returned.
C12_ResponseFormat ==
    /\ C12_FormatSetIffAllowed
    /\ (/\ C12_AsksFormat /\ call.input.Output.Format = "json"
        /\ call.out.status = "ok" /\ ~call.out.v.ResponseFormat.isNil) =>
          /\ ~call.out.v.ResponseFormat.JSONSchema.isNil
          /\ Val(call.out.v.ResponseFormat.JSONSchema.Schema) =
                mapToJSONString(call.input.Output.Schema)

\* A call of convertRequest or generate on a request whose output spec has a
\* format other than JSON or plain text.
C13_OtherFormat ==
    /\ call.fn \in {"convertRequest", "generate"}
    /\ ~call.input.Output.isNil /\ call.input.Output.Format \notin {"", "json", "text"}

\* C13: for every model, convertRequest on a request whose output format is
\* neither JSON nor plain text returns an error and no vendor request, and
\* generate on it returns an error and makes no outbound call.
C13_InvalidFormatError ==
    /\ (C13_OtherFormat /\ call.fn = "convertRequest") => call.out.status = "err"
    /\ (C13_OtherFormat /\ call.fn = "generate") =>
          call.out.kind = "error" /\ call.out.outbound = 0

C14_VendorRole(role) == IF role = "model" THEN "assistant" ELSE role

RECURSIVE C14_Roles(_)
\* The roles of the vendor messages C14 describes for a list of messages: one
\* per System, User and Model message, one per Part of a Tool message.
C14_Roles(messages) ==
    IF messages = <<>> THEN <<>>
    ELSE [i \in 1..(IF Head(messages).Role = "tool" THEN Len(Head(messages).Content) ELSE 1) |->
             C14_VendorRole(Head(messages).Role)] \o C14_Roles(Tail(messages))

RECURSIVE C14_ToolParts(_)
\* The Parts of the Tool messages of a list, in order.
C14_ToolParts(messages) ==
    IF messages = <<>> THEN <<>>
    ELSE (IF Head(messages).Role = "tool" THEN Head(messages).Content ELSE <<>>)
            \o C14_ToolParts(Tail(messages))

C14_IsToolMessage(m) == m.Role = "tool"

\* convertMessages returned the vendor messages C14 describes.
C14_AsDescribed ==
    /\ call.out.status = "ok"
    /\ [i \in 1..Len(call.out.v) |-> call.out.v[i].Role] = C14_Roles(call.messages)
    /\ \A i \in 1..Len(C14_ToolParts(call.messages)) :
          /\ SelectSeq(call.out.v, C14_IsToolMessage)[i].Name =
                C14_ToolParts(call.messages)[i].ToolResponse.Name
          /\ SelectSeq(call.out.v, C14_IsToolMessage)[i].ToolCallID =
                C14_ToolParts(call.messages)[i].ToolResponse.Name
          /\ Val(SelectSeq(call.out.v, C14_IsToolMessage)[i].Content) =
                mapToJSONString(C14_ToolParts(call.messages)[i].ToolResponse.Output)

\* A convertMessages call on messages with roles among the four known ones,
\* whose User messages hold Text and Media Parts and whose Tool messages hold
\* ToolResponse Parts.
C14_Scope ==
    /\ call.fn = "convertMessages"
    /\ \A i \in 1..Len(call.messages) :
          /\ call.messages[i].Role \in {"user", "system", "model", "tool"}
          /\ \A j \in 1..Len(call.messages[i].Content) :
                /\ call.messages[i].Role = "user" =>
                      call.messages[i].Content[j].Kind \in {"text", "media"}
                /\ call.messages[i].Role = "tool" =>
                      call.messages[i].Content[j].Kind = "toolResponse"

\* C14: for messages with roles among the four known ones and any number of
\* Parts per message, convertMessages emits the vendor messages in the order
\* of the generic messages: one with the mapped role for each System, User and
\* Model message, and for each Tool message one per Part, carrying the
\* JSON-encoded output and the tool name as name and call id.
C14_MessageOrder == C14_Scope => C14_AsDescribed

\* The same for messages whose System and Model messages have a Part.
C14_OrderWhenNonEmpty ==
    (/\ C14_Scope
     /\ \A i \in 1..Len(call.messages) :
           call.messages[i].Role \in {"system", "model"} => Len(call.messages[i].Content) > 0)
        => C14_AsDescribed

C15_IsToolRequest(part) == part.Kind = "toolRequest"

\* A convertMessages call whose last message is a Model message with a Part,
\* after messages that C14_OrderWhenNonEmpty covers.
C15_Scope ==
    /\ C14_Scope /\ Len(call.messages) > 0
    /\ call.messages[Len(call.messages)].Role = "model"
    /\ \A i \in 1..Len(call.messages) :
          call.messages[i].Role \in {"system", "model"} => Len(call.messages[i].Content) > 0

\* The vendor message emitted last is an assistant message, with no text and
\* one tool call per ToolRequest Part of m in Part order when m has one, and
\* with the first Part's text and no tool calls when it has none.
C15_AssistantMessage(m, v) ==
    /\ v.Role = "assistant"
    /\ IF \E j \in 1..Len(m.Content) : C15_IsToolRequest(m.Content[j])
       THEN /\ v.Content = <<>>
            /\ Len(v.ToolCalls) = Len(SelectSeq(m.Content, C15_IsToolRequest))
            /\ \A j \in 1..Len(v.ToolCalls) :
                  /\ v.ToolCalls[j].ID = SelectSeq(m.Content, C15_IsToolRequest)[j].ToolRequest.Name
                  /\ v.ToolCalls[j].Function.Name =
                        SelectSeq(m.Content, C15_IsToolRequest)[j].ToolRequest.Name
                  /\ Val(v.ToolCalls[j].Function.Arguments) =
                        mapToJSONString(SelectSeq(m.Content, C15_IsToolRequest)[j].ToolRequest.Input)
       ELSE v.Content = m.Content[1].Text /\ v.ToolCalls = <<>>

\* C15: for a Model message (with a first Part), convertMessages emits exactly
\* one vendor assistant message: if a Part is a ToolRequest it has no text and
\* one tool call per ToolRequest Part, in Part order, with call id and
\* function name the tool name and arguments the JSON-encoded input, the
\* other Parts dropped; if none is, it carries the first Part's text and no
\* tool calls.
C15_ModelMessage ==
    C15_Scope =>
        /\ call.out.status = "ok"
        /\ Len(call.out.v) = Len(C14_Roles(call.messages))
        /\ C15_AssistantMessage(call.messages[Len(call.messages)], call.out.v[Len(call.out.v)])

\* A Model message of a text, a ToolRequest, an image and a second ToolRequest
\* has been converted to one assistant message with the two tool calls.
C15_Witness ==
    /\ C15_Scope /\ call.out.status = "ok"
    /\ Len(call.messages[Len(call.messages)].Content) = 4
    /\ Len(call.out.v[Len(call.out.v)].ToolCalls) = 2
    /\ call.out.v[Len(call.out.v)].ToolCalls[1].Function.Name = "gablorken"
    /\ call.out.v[Len(call.out.v)].ToolCalls[2].Function.Arguments = <<"{", "\"x\"", ":", "1", "}">>

C16_IsUserMessage(m) == m.Role = "user"

\* A convertRequest or generate call on messages with roles among the four
\* known ones whose System and Model messages have a Part and whose Tool
\* messages hold ToolResponse Parts, asking for no output format or a known one.
C16_Scope ==
    /\ call.fn \in {"convertRequest", "generate"}
    /\ call.input.Output.isNil \/ call.input.Output.Format \in {"", "json", "text"}
    /\ \A i \in 1..Len(call.input.Messages) :
          /\ call.input.Messages[i].Role \in {"user", "system", "model", "tool"}
          /\ call.input.Messages[i].Role \in {"system", "model"} =>
                Len(call.input.Messages[i].Content) > 0
          /\ call.input.Messages[i].Role = "tool" =>
                \A j \in 1..Len(call.input.Messages[i].Content) :
                    call.input.Messages[i].Content[j].Kind = "toolResponse"

\* Some User message holds a Part that is neither Text nor Media.
C16_OtherPart ==
    \E i \in 1..Len(call.input.Messages) :
        /\ call.input.Messages[i].Role = "user"
        /\ \E j \in 1..Len(call.input.Messages[i].Content) :
              call.input.Messages[i].Content[j].Kind \notin {"text", "media"}

\* The vendor message v has one content part per Part of the User message m,
\* in order: a text part, or an image part with detail auto.
C16_ContentParts(m, v) ==
    /\ Len(v.MultiContent) = Len(m.Content)
    /\ \A j \in 1..Len(m.Content) :
          IF m.Content[j].Kind = "text"
          THEN /\ v.MultiContent[j].Type = "text"
               /\ v.MultiContent[j].Text = m.Content[j].Text
               /\ v.MultiContent[j].ImageURL.isNil
          ELSE /\ v.MultiContent[j].Type = "image_url"
               /\ ~v.MultiContent[j].ImageURL.isNil
               /\ v.MultiContent[j].ImageURL.URL = m.Content[j].Text
               /\ v.MultiContent[j].ImageURL.Detail = "auto"

\* C16: a User message with a Part that is neither Text nor Media makes
\* convertRequest return the error "unknown part type in a request" and no
\* vendor request, and generate return that error without an outbound call;
\* User messages of Text and Media Parts only are converted to one vendor
\* message each, with one content part per Part, in order.
C16_UserParts ==
    /\ (C16_Scope /\ C16_OtherPart /\ call.fn = "convertRequest") =>
          call.out = Err("unknown part type in a request")
    /\ (C16_Scope /\ C16_OtherPart /\ call.fn = "generate") =>
          /\ call.out.kind = "error" /\ call.out.val = "unknown part type in a request"
          /\ call.out.outbound = 0 /\ call.out.req = ZeroRequest
    /\ (C16_Scope /\ ~C16_OtherPart /\ call.fn = "convertRequest") =>
          /\ call.out.status = "ok"
          /\ Len(SelectSeq(call.out.v.Messages, C16_IsUserMessage)) =
                Len(SelectSeq(call.input.Messages, C16_IsUserMessage))
          /\ \A i \in 1..Len(SelectSeq(call.input.Messages, C16_IsUserMessage)) :
                C16_ContentParts(SelectSeq(call.input.Messages, C16_IsUserMessage)[i],
                                 SelectSeq(call.out.v.Messages, C16_IsUserMessage)[i])

\* generate has been called with a User message of a Text and a Data Part and
\* has returned the error without an outbound call.
C16_Witness ==
    /\ call.fn = "generate" /\ call.input.Messages = DataPartMessages
    /\ call.out.kind = "error" /\ call.out.val = "unknown part type in a request"
    /\ call.out.outbound = 0

\* The mapping the arguments of a tool call decode to: numbers as float64.
C17_Decoded(arguments) ==
    IF arguments = <<"{", "\"x\"", ":", "1", "}">>
    THEN [t |-> "map", isNil |-> FALSE, m |-> [x |-> [t |-> "num", go |-> "float64", n |-> 1]]]
    ELSE [t |-> "map", isNil |-> FALSE, m |-> EmptyMap]

\* The candidate c is the one C17 describes for the choice.
C17_Candidate(choice, jsonMode, c) ==
    /\ c.Index = choice.Index /\ c.Message.Role = "model"
    /\ IF Len(choice.Message.ToolCalls) > 0
       THEN /\ Len(c.Message.Content) = Len(choice.Message.ToolCalls)
            /\ \A j \in 1..Len(choice.Message.ToolCalls) :
                  /\ c.Message.Content[j].Kind = "toolRequest"
                  /\ c.Message.Content[j].Text = <<>>
                  /\ c.Message.Content[j].ToolRequest.Name =
                        choice.Message.ToolCalls[j].Function.Name
                  /\ c.Message.Content[j].ToolRequest.Input =
                        C17_Decoded(choice.Message.ToolCalls[j].Function.Arguments)
       ELSE /\ Len(c.Message.Content) = 1
            /\ c.Message.Content[1].Kind = (IF jsonMode THEN "data" ELSE "text")
            /\ c.Message.Content[1].Text = choice.Message.Content

\* C17: translateResponse, on a response whose tool-call arguments are JSON
\* objects, produces one Candidate per vendor choice, in choice order, with
\* the choice's index and role Model; its message has one ToolRequest Part per
\* tool call, in call order, with the arguments decoded and the text
\* discarded, when the choice has a tool call, and otherwise exactly one Part
\* with the raw content, a Data Part in jsonMode and a Text Part if not.
C17_Candidates ==
    (/\ call.fn = "translateResponse"
     /\ \A i \in 1..Len(call.resp.Choices) :
           \A j \in 1..Len(call.resp.Choices[i].Message.ToolCalls) :
               call.resp.Choices[i].Message.ToolCalls[j].Function.Arguments
                   \in {<<"{", "\"x\"", ":", "1", "}">>, <<"{", "}">>}) =>
        /\ ~call.out.panic
        /\ Len(call.out.v.Candidates) = Len(call.resp.Choices)
        /\ \A i \in 1..Len(call.resp.Choices) :
              C17_Candidate(call.resp.Choices[i], call.jsonMode, call.out.v.Candidates[i])

\* A response of a choice with two tool calls and a text, and a choice with
\* text only, has been translated in jsonMode.
C17_Witness ==
    /\ call.fn = "translateResponse" /\ call.jsonMode /\ ~call.out.panic
    /\ Len(call.resp.Choices) = 2
    /\ Len(call.resp.Choices[1].Message.ToolCalls) = 2
    /\ Len(call.resp.Choices[2].Message.ToolCalls) = 0
    /\ Len(call.out.v.Candidates[1].Message.Content) = 2
    /\ call.out.v.Candidates[2].Message.Content[1].Kind = "data"

\* The value v as json.Unmarshal into a generic mapping holds it: every
\* number as float64, and a nil mapping held as a value as null.
RECURSIVE C18_AsDecodedValue(_)
C18_AsDecodedValue(v) ==
    IF v.t = "num" THEN [t |-> "num", go |-> "float64", n |-> v.n]
    ELSE IF v.t = "arr"
    THEN [t |-> "arr", a |-> [i \in 1..Len(v.a) |-> C18_AsDecodedValue(v.a[i])]]
    ELSE IF v.t = "map" /\ v.isNil THEN [t |-> "null"]
    ELSE IF v.t = "map"
    THEN [t |-> "map", isNil |-> FALSE,
          m |-> [k \in DOMAIN v.m |-> C18_AsDecodedValue(v.m[k])]]
    ELSE v

\* The mapping data as the round trip returns it: nil when it is nil, and
\* else its keys with their values as decoded.
C18_AsDecoded(data) ==
    IF data.isNil THEN data
    ELSE [t |-> "map", isNil |-> FALSE,
          m |-> [k \in DOMAIN data.m |-> C18_AsDecodedValue(data.m[k])]]

\* A JSON-representable mapping has been encoded and decoded again.
C18_RoundTripped == call.fn = "jsonRoundTrip" /\ Marshalable(call.data)

\* C18 as stated: encoding a JSON-representable tool-input mapping with
\* mapToJSONString and decoding the result with jsonStringToMap fails in
\* neither step and yields a mapping equal to the original.
C18_Original ==
    C18_RoundTripped =>
        ~call.enc.panic /\ ~call.out.panic /\ call.out.v = call.data

\* C18, amended: encoding a JSON-representable tool-input mapping with
\* mapToJSONString and decoding the result with jsonStringToMap fails in
\* neither step and yields the original mapping with every number held as
\* float64 and every nil mapping held as a value replaced by null; it equals
\* the original exactly when the original holds its numbers as float64 and no
\* nil mapping as a value.
C18_RoundTrip ==
    C18_RoundTripped =>
        /\ ~call.enc.panic /\ ~call.out.panic
        /\ call.out.v = C18_AsDecoded(call.data)
        /\ (call.out.v = call.data) = (C18_AsDecoded(call.data) = call.data)

\* A nested mapping holding the int 1 has been encoded and decoded, and the
\* number came back as the float64 1.
C18_Witness ==
    /\ C18_RoundTripped /\ ~call.out.panic
    /\ DOMAIN call.data.m = {"over", "x"}
    /\ call.data.m["over"].t = "map"
    /\ ~call.data.m["over"].isNil /\ DOMAIN call.data.m["over"].m = {"x"}
    /\ call.data.m["over"].m["x"] = [t |-> "num", go |-> "int", n |-> 1]
    /\ call.out.v.m["over"].m["x"] = [t |-> "num", go |-> "float64", n |-> 1]

\* generate has returned a response translated from a vendor response whose
\* choices carry content and no tool call.
C19_Translated ==
    /\ call.fn = "generate" /\ call.out.kind = "response"
    /\ \A i \in 1..Len(call.answer.resp.Choices) :
          call.answer.resp.Choices[i].Message.ToolCalls = <<>>

\* The request asks for the JSON output format.
C19_AsksJSON == ~call.input.Output.isNil /\ call.input.Output.Format = "json"

\* Every candidate's content is one Part of the kind.
C19_ContentKind(kind) ==
    \A i \in 1..Len(call.out.val.Candidates) :
        /\ Len(call.out.val.Candidates[i].Message.Content) = 1
        /\ call.out.val.Candidates[i].Message.Content[1].Kind = kind

\* The vendor request carries the JSON-object response format.
C19_FormatJSONObject ==
    ~call.out.req.ResponseFormat.isNil /\ call.out.req.ResponseFormat.Type = "json_object"

\* C19: in generate, the response content is returned as a Data Part when
\* the request's output format is JSON and as a Text Part otherwise, whatever
\* the model: for a model outside the format allow-list the vendor request
\* carries no response format and a JSON request still gets a Data Part; for
\* an allow-listed model the content is a Data Part exactly when the vendor
\* request carries the JSON-object response format.
C19_JSONMode ==
    C19_Translated =>
        /\ C19_ContentKind(IF C19_AsksJSON THEN "data" ELSE "text")
        /\ call.model \notin C12_AllowList => call.out.req.ResponseFormat.isNil
        /\ call.model \in C12_AllowList => (C19_AsksJSON = C19_FormatJSONObject)

\* generate for a model outside the allow-list, asked for JSON, has sent a
\* vendor request with no response format and returned a Data Part.
C19_Witness ==
    /\ C19_Translated /\ C19_AsksJSON /\ call.model = "gpt-4"
    /\ call.out.req.ResponseFormat.isNil /\ call.out.outbound = 1
    /\ call.out.val.Candidates[1].Message.Content[1].Kind = "data"

\* C20: no model is registered while Init has not succeeded: as long as
\* state.initted is unset, also after an Init that returned the error about
\* the missing credential, nothing is registered and no client is set, a
\* DefineModel past its check is panicking with "openai.Init not called" and
\* every DefineModel that has returned has panicked; so a registered closure
\* exists only with the plugin initialized and the client set, and every
\* generate, running or returned, read a client that is set.
C20_NoModelBeforeInit ==
    /\ ~initted =>
          /\ client = 0 /\ regCount = 0
          /\ \A n \in ModelNames : ~registry[n].defined
          /\ \A p \in Procs :
                /\ pc[p] = "dm_unlock" => frame[p].err = [kind |-> "panic", msg |-> "openai.Init not called"]
                /\ ret[p].op = "DefineModel" => ret[p].kind = "panic"
    /\ \A n \in ModelNames : registry[n].defined => initted /\ client # 0
    /\ \A p \in Procs :
          /\ frame[p].op = "generate" => frame[p].client # 0
          /\ ret[p].op = "generate" =>
                ret[p].kind # "panic" \/ ret[p].val # "nil pointer dereference"

\* Init has returned the error about the missing credential, and a
\* DefineModel called afterwards has panicked and registered nothing.
C20_Witness ==
    /\ ~initted /\ \A n \in ModelNames : ~registry[n].defined
    /\ \E p, q \in Procs :
          /\ ret[p].op = "Init" /\ ret[p].kind = "error"
          /\ ret[q].op = "DefineModel" /\ ret[q].kind = "panic"
          /\ ret[q].val = "openai.Init not called"

====
